---------------------------- MODULE Spec2Model ----------------------------
(***************************************************************************)
(* A model of GenerateSimpleRouteShapes.py: the script that reads the      *)
(* GTFS tables shapes.txt, routes.txt and trips.txt, picks for every route *)
(* its longest shape, merges into it the parts of the route's other shapes *)
(* that lie outside a buffer around what was built so far, simplifies the  *)
(* result and writes one feature per route to route_shapes.geojson.        *)
(*                                                                         *)
(* Geometry.  Coordinates are integers on one axis; one unit stands for    *)
(* 0.0001 degree, the script's buffer distance.  A geometry is known by    *)
(* the lattice points it passes through, so buffer, within, difference and *)
(* union are the point-set operations shapely computes, restricted to the  *)
(* lattice.  A line is the sequence of its vertices, a multi-line the      *)
(* sequence of its parts.                                                  *)
(*                                                                         *)
(* Line 36 of the script lacks the comma between 'trips.txt' and usecols,  *)
(* so the file as it stands does not compile.  The model reads the line    *)
(* with the comma in place.                                                *)
(***************************************************************************)
EXTENDS Integers, Sequences, FiniteSets

(* ------------------------------ bounds --------------------------------- *)

\* Coordinates of the input points are 0..GridW.
GridW == 5
\* Most points of a shape in shapes.txt.
MaxPathLen == 3
\* Most shapes of the route in the geometry inputs.
MaxShapes == 3
\* Route ids of the join inputs are 1..MaxRoutes.
MaxRoutes == 2
\* Most rows of trips.txt in the join inputs.
MaxTrips == 3

(* ------------------------- program constants --------------------------- *)

\* multiline.buffer(0.0001): the buffer distance, the unit of the lattice.
BufferRadius == 1
\* tolerance = 0.00005 is the buffer distance divided by ToleranceDivisor.
ToleranceDivisor == 2

(* ------------------------------ helpers -------------------------------- *)

Min(a, b) == IF a <= b THEN a ELSE b

Max(a, b) == IF a >= b THEN a ELSE b

Abs(a) == IF a >= 0 THEN a ELSE 0 - a

Range(s) == {s[i] : i \in DOMAIN s}

RECURSIVE Flatten(_)
\* The concatenation of a sequence of sequences.
Flatten(ss) == IF ss = <<>> THEN <<>> ELSE Head(ss) \o Flatten(Tail(ss))

RECURSIVE DropDuplicates(_)
\* DataFrame.drop_duplicates: the first occurrence of every row, in order.
DropDuplicates(rows) ==
    IF rows = <<>> THEN <<>>
    ELSE LET front == DropDuplicates(SubSeq(rows, 1, Len(rows) - 1))
             last  == rows[Len(rows)]
         IN  IF last \in Range(front) THEN front ELSE Append(front, last)

(* ------------------------ geometry primitives -------------------------- *)

\* The lattice points of the segment from a to b.
Segment(a, b) == Min(a, b) .. Max(a, b)

\* The lattice points of a line given by its vertices.
PointSet(line) ==
    IF Len(line) = 1 THEN {line[1]}
    ELSE UNION {Segment(line[i], line[i + 1]) : i \in 1 .. Len(line) - 1}

\* The lattice points of a multi-line.
MultiPointSet(ml) == UNION {PointSet(ml[i]) : i \in DOMAIN ml}

\* geometry.buffer(r): every point within distance r of the geometry.
Buffer(S, r) == UNION {(s - r) .. (s + r) : s \in S}

\* this_shape.within(area): no point of the line lies outside the area.
Within(line, ar) == PointSet(line) \subseteq ar

\* The points passed on the way from a to b, a left out, b included.
Walk(a, b) ==
    IF a <= b THEN [i \in 1 .. (b - a) |-> [p |-> a + i, v |-> (a + i = b)]]
    ELSE [i \in 1 .. (a - b) |-> [p |-> a - i, v |-> (a - i = b)]]

\* The line point by point in the order it is drawn; v marks the vertices.
Dense(line) ==
    <<[p |-> line[1], v |-> TRUE]>> \o
    Flatten([i \in 1 .. Len(line) - 1 |-> Walk(line[i], line[i + 1])])

RECURSIVE Runs(_, _, _, _)
\* The maximal stretches of the drawn line d that lie outside the area.
Runs(d, ar, cur, acc) ==
    IF d = <<>> THEN (IF cur = <<>> THEN acc ELSE Append(acc, cur))
    ELSE IF Head(d).p \in ar
         THEN Runs(Tail(d), ar, <<>>, IF cur = <<>> THEN acc ELSE Append(acc, cur))
         ELSE Runs(Tail(d), ar, Append(cur, Head(d)), acc)

\* A stretch as a line: its two ends and the vertices of the shape between.
RunLine(run) ==
    LET keep == SelectSeq([i \in DOMAIN run |->
                              [p |-> run[i].p,
                               k |-> (i = 1 \/ i = Len(run) \/ run[i].v)]],
                          LAMBDA e : e.k)
    IN  [i \in DOMAIN keep |-> keep[i].p]

\* Only the first stretch outside the area is kept.
DifferenceFirstPiece(line, ar) ==
    LET runs == Runs(Dense(line), ar, <<>>, <<>>)
    IN  IF runs = <<>> THEN <<>> ELSE <<RunLine(runs[1])>>

\* this_shape.difference(area): the parts of the line outside the area.
Difference(line, ar) ==
    LET runs == Runs(Dense(line), ar, <<>>, <<>>)
    IN  [i \in DOMAIN runs |-> RunLine(runs[i])]

\* multiline.union(new_part): new_part lies outside the buffer around
\* multiline, so no part meets another and the parts are put side by side.
Union(ml, parts) == ml \o parts

\* Distance from p to the segment from a to b.
DistToSegment(p, a, b) ==
    IF p < Min(a, b) THEN Min(a, b) - p
    ELSE IF p > Max(a, b) THEN p - Max(a, b) ELSE 0

\* The index in i+1 .. j-1 of the point farthest from segment line[i]-line[j].
Farthest(line, i, j) ==
    CHOOSE k \in (i + 1) .. (j - 1) :
        \A m \in (i + 1) .. (j - 1) :
            DistToSegment(line[m], line[i], line[j]) <=
                DistToSegment(line[k], line[i], line[j])

RECURSIVE DouglasPeucker(_, _, _)
\* The indices kept strictly between i and j.
DouglasPeucker(line, i, j) ==
    IF j <= i + 1 THEN {}
    ELSE LET k == Farthest(line, i, j)
         IN  IF ToleranceDivisor * DistToSegment(line[k], line[i], line[j])
                    <= BufferRadius
             THEN {}
             ELSE DouglasPeucker(line, i, k) \cup {k} \cup DouglasPeucker(line, k, j)

\* Simplification of one line: both ends stay, interior points within the
\* tolerance of the simplified line go.
SimplifyLine(line) ==
    LET kept == {1, Len(line)} \cup DouglasPeucker(line, 1, Len(line))
        idx  == SelectSeq([i \in DOMAIN line |-> i], LAMBDA i : i \in kept)
    IN  [n \in DOMAIN idx |-> line[idx[n]]]

\* multiline.simplify(tolerance, preserve_topology=False): part by part.
Simplify(ml) == [i \in DOMAIN ml |-> SimplifyLine(ml[i])]

(* ------------------------------ tables --------------------------------- *)

\* shapes[shapes['shape_id'] == id]: the rows of one shape, in table order.
ShapeRows(tbl, id) == SelectSeq(tbl, LAMBDA r : r.shape_id = id)

\* shapes[shapes['shape_id'] == id]['shape_pt_sequence'].count()
PtCount(tbl, id) == Len(ShapeRows(tbl, id))

\* zip(shape_pt_lon, shape_pt_lat) of one shape: its points in table order.
Coords(tbl, id) ==
    LET rows == ShapeRows(tbl, id) IN [i \in DOMAIN rows |-> rows[i].pt]

\* sh.LineString raises unless it is given at least two points.
LineStringRaises(tbl, id) == PtCount(tbl, id) < 2

\* pd.merge(routes, trips, on='route_id', how='inner'): for every row of
\* routes in order, the rows of trips with its route_id in order.  Of the
\* routes columns only route_id is read later, so a row of routes is its id.
MergeRoutesTrips(rts, trps) ==
    Flatten([i \in DOMAIN rts |->
                SelectSeq(trps, LAMBDA t : t.route_id = rts[i])])

\* pd.merge(routes_trips, shapes, on='shape_id', how='inner')
MergeShapes(rt, shps) ==
    Flatten([i \in DOMAIN rt |->
                LET rows == ShapeRows(shps, rt[i].shape_id)
                IN  [j \in DOMAIN rows |->
                        [route_id |-> rt[i].route_id,
                         shape_id |-> rt[i].shape_id,
                         pt       |-> rows[j].pt,
                         seq      |-> rows[j].seq]]])

\* Lines 40-52: the joined table, duplicate rows dropped before and after.
JoinTables(rts, trps, shps) ==
    DropDuplicates(MergeShapes(MergeRoutesTrips(rts, DropDuplicates(trps)), shps))

\* Every row's route id, repeated as often as the table has rows for it.
RouteIdsAllRows(tbl) == [i \in DOMAIN tbl |-> tbl[i].route_id]

\* routes_trips_shapes['route_id'].unique(): in order of first appearance.
RouteIds(tbl) == DropDuplicates([i \in DOMAIN tbl |-> tbl[i].route_id])

\* set(routes_trips_shapes[route_id == r]['shape_id'])
ShapeIdsOf(tbl, r) ==
    {tbl[i].shape_id : i \in {j \in DOMAIN tbl : tbl[j].route_id = r}}

(* ------------------------ steps of the reduction ----------------------- *)

\* The comparison reads the other way round.
LongerFlipped(cnt, best) == cnt < best

\* Line 73: this shape has more points than the longest so far.
Longer(cnt, best) == cnt > best

\* The test has lost its "not".
ContributesInverted(line, ar) == Within(line, ar)

\* Line 101: if not this_shape.within(area)
Contributes(line, ar) == ~Within(line, ar)

\* Line 89: area = multiline.buffer(0.0001)
InitialArea(ml) == Buffer(MultiPointSet(ml), BufferRadius)

\* The second buffer call carries another distance than the first.
UpdatedAreaWide(ml) == Buffer(MultiPointSet(ml), 2 * BufferRadius)

\* Line 107: area = multiline.buffer(0.0001)
UpdatedArea(ml) == Buffer(MultiPointSet(ml), BufferRadius)

\* Every shape is added whole and untested.
MergeResultUntested(ml, ar, line) ==
    [multiline |-> Union(ml, <<line>>),
     area      |-> UpdatedArea(Union(ml, <<line>>))]

\* The area is left as it was when a part is added.
MergeResultStaleArea(ml, ar, line) ==
    IF Contributes(line, ar)
    THEN [multiline |-> Union(ml, Difference(line, ar)), area |-> ar]
    ELSE [multiline |-> ml, area |-> ar]

\* Lines 101-107: one pass of the loop over the shorter shapes.
MergeResult(ml, ar, line) ==
    IF Contributes(line, ar)
    THEN LET new_part == Difference(line, ar)
             merged_ml == Union(ml, new_part)
         IN  [multiline |-> merged_ml, area |-> UpdatedArea(merged_ml)]
    ELSE [multiline |-> ml, area |-> ar]

\* The longest shape stays in the set the merge loop runs over.
ShorterShapeIdsKeepLongest(ids, lng) == ids

\* Lines 91-92: shorter_shape_ids = shape_ids; shorter_shape_ids.remove(longest)
ShorterShapeIds(ids, lng) == ids \ {lng}

\* Line 114: gj.Feature(geometry=simplified_multiline, properties={route_id})
Feature(ml, r) == [geometry |-> Simplify(ml), route_id |-> r]

(* ------------------------------- state --------------------------------- *)

VARIABLES
    shapes_txt, routes_txt, trips_txt,  \* the three input files
    outfile,                            \* route_shapes.geojson
    shapes, routes, trips,              \* the data frames read from the files
    routes_trips_shapes,                \* the joined table
    route_queue,                        \* route ids the outer loop has yet to take
    route_id,                           \* the route being processed
    shape_ids,                          \* its set of shape ids
    longest, longest_pt_num,            \* the longest shape so far and its count
    todo,                               \* shape ids the running inner loop has yet to take
    multiline, area,                    \* the geometry built so far and its buffer
    merged,                             \* shape ids the merge loop has taken, in order
    route_shape_list,                   \* the features built so far
    pc                                  \* where the script is

vars == <<shapes_txt, routes_txt, trips_txt, outfile, shapes, routes, trips,
          routes_trips_shapes, route_queue, route_id, shape_ids, longest,
          longest_pt_num, todo, multiline, area, merged, route_shape_list, pc>>

files == <<shapes_txt, routes_txt, trips_txt>>

frames == <<shapes, routes, trips>>

routeLocals == <<route_id, shape_ids, longest, longest_pt_num, todo,
                 multiline, area, merged>>

NoFile == [exists |-> FALSE, features |-> <<>>]

(* ------------------------------- inputs -------------------------------- *)

\* The rows of shapes.txt for shape id whose points are p, numbered 1, 2, ...
RowsOf(id, p) ==
    [i \in DOMAIN p |-> [shape_id |-> id, pt |-> p[i], seq |-> i]]

\* shapes.txt holding shape i with points ps[i], rows in sequence order.
ShapesTable(ps) == Flatten([i \in DOMAIN ps |-> RowsOf(i, ps[i])])

Permutations(n) ==
    {f \in [1 .. n -> 1 .. n] : \A i, j \in 1 .. n : f[i] = f[j] => i = j}

\* Every order in which the rows of one shape can stand in the file.
RowOrders(id, p) ==
    {[i \in DOMAIN p |-> RowsOf(id, p)[f[i]]] : f \in Permutations(Len(p))}

Ascending(p) == \A i \in 1 .. Len(p) - 1 : p[i] < p[i + 1]

UnitSteps(p) == \A i \in 1 .. Len(p) - 1 : p[i + 1] = p[i] + 1

\* Shapes of the geometry inputs: a run of neighbouring points, or a
\* straight stretch given by its two ends, from 0 to the far end of the
\* axis or one short of it.
CataloguePaths ==
    {p \in UNION {[1 .. n -> 0 .. GridW] : n \in 2 .. MaxPathLen} :
        /\ Ascending(p)
        /\ \/ UnitSteps(p)
           \/ (Len(p) = 2 /\ p[1] = 0 /\ p[2] >= GridW - 1)}

\* An order on the catalogue, to list every set of shapes once.
PathRank(p) == (Len(p) * (GridW + 1) + p[1]) * (GridW + 1) + p[Len(p)]

RECURSIVE PathTuples(_)
\* The tuples of n catalogue shapes in the order of PathRank.
PathTuples(n) ==
    IF n = 0 THEN {<<>>}
    ELSE {Append(tp[1], tp[2]) :
            tp \in {c \in PathTuples(n - 1) \X CataloguePaths :
                      c[1] = <<>> \/ PathRank(c[1][Len(c[1])]) <= PathRank(c[2])}}

GeometryInputs == UNION {PathTuples(n) : n \in 1 .. MaxShapes}

\* A file that is there and well-formed.  The status of a file is "ok",
\* "missing" (not there, or no table, or without a column that usecols
\* names) or, for shapes.txt, which is read whole, "nocolumn": a table
\* without its shape_pt_sequence column.
File(rows) == [status |-> "ok", rows |-> rows]

\* One route whose shapes are drawn from the catalogue.
InputsGeometry ==
    {[shapes |-> File(ShapesTable(ps)),
      routes |-> File(<<1>>),
      trips  |-> File([i \in DOMAIN ps |-> [route_id |-> 1, shape_id |-> i]])] :
        ps \in GeometryInputs}

TripRows == [route_id : 1 .. MaxRoutes, shape_id : 1 .. MaxShapes]

TripRank(t) == t.route_id * (MaxShapes + 1) + t.shape_id

RECURSIVE TripTuples(_)
\* The tables of n trips, repeated rows included, in the order of TripRank.
TripTuples(n) ==
    IF n = 0 THEN {<<>>}
    ELSE {Append(tt[1], tt[2]) :
            tt \in {c \in TripTuples(n - 1) \X TripRows :
                      c[1] = <<>> \/ TripRank(c[1][Len(c[1])]) <= TripRank(c[2])}}

TripsTables == UNION {TripTuples(n) : n \in 0 .. MaxTrips}

\* Tables of routes: some of the route ids, in any order.
RoutesTables ==
    {r \in UNION {[1 .. n -> 1 .. MaxRoutes] : n \in 0 .. MaxRoutes} :
        \A i, j \in 1 .. Len(r) : r[i] = r[j] => i = j}

\* shapes.txt of the join inputs: shape s runs from 0 to s; the last shape
\* id that trips may name has no rows.
JoinShapes == ShapesTable([s \in 1 .. MaxShapes - 1 |-> [i \in 1 .. s + 1 |-> i - 1]])

InputsJoins ==
    {[shapes |-> File(JoinShapes), routes |-> File(r), trips |-> File(t)] :
        r \in RoutesTables, t \in TripsTables}

\* Shape 1 starts at 0 and runs up, shape 2 starts at GridW and runs down;
\* a shape of one point is one that LineString refuses.
RowOrderShapes ==
    {rows1 \o rows2 :
        rows1 \in UNION {RowOrders(1, [i \in 1 .. n |-> i - 1]) : n \in 1 .. MaxPathLen},
        rows2 \in UNION {RowOrders(2, [i \in 1 .. n |-> GridW + 1 - i]) : n \in 1 .. MaxPathLen}}

RowOrderTrips ==
    {<<[route_id |-> 1, shape_id |-> 1], [route_id |-> 2, shape_id |-> 2]>>,
     <<[route_id |-> 1, shape_id |-> 1], [route_id |-> 1, shape_id |-> 2]>>}

InputsRowOrder ==
    {[shapes |-> File(s), routes |-> File(<<1, 2>>), trips |-> File(t)] :
        s \in RowOrderShapes, t \in RowOrderTrips}

\* A set of tables, with one trip or none, of which at least one file is
\* missing or malformed.
InputsBroken ==
    {[shapes |-> [status |-> b[1], rows |-> JoinShapes],
      routes |-> [status |-> b[2], rows |-> <<1>>],
      trips  |-> [status |-> b[3], rows |-> t]] :
        b \in {c \in {"ok", "missing", "nocolumn"} \X {"ok", "missing"} \X {"ok", "missing"} :
                  \E i \in 1 .. 3 : c[i] /= "ok"},
        t \in {<<>>, <<[route_id |-> 1, shape_id |-> 1]>>}}

(* -------------------------------- Init --------------------------------- *)

\* The script starts in a directory holding the three files.
InputFiles(in) ==
    /\ shapes_txt = in.shapes
    /\ routes_txt = in.routes
    /\ trips_txt = in.trips

Init ==
    /\ \/ \E in \in InputsGeometry : InputFiles(in)
       \/ \E in \in InputsJoins : InputFiles(in)
       \/ \E in \in InputsRowOrder : InputFiles(in)
       \/ \E in \in InputsBroken : InputFiles(in)
    /\ outfile = NoFile
    /\ shapes = <<>>
    /\ routes = <<>>
    /\ trips = <<>>
    /\ routes_trips_shapes = <<>>
    /\ route_queue = <<>>
    /\ route_id = 0
    /\ shape_ids = {}
    /\ longest = 0
    /\ longest_pt_num = 0
    /\ todo = {}
    /\ multiline = <<>>
    /\ area = {}
    /\ merged = <<>>
    /\ route_shape_list = <<>>
    /\ pc = "load_shapes"

(* ------------------------------- actions ------------------------------- *)

\* An exception nobody catches: the script stops where it is.
Raise ==
    /\ pc' = "failed"
    /\ UNCHANGED <<files, outfile, frames, routes_trips_shapes, route_queue,
                   routeLocals, route_shape_list>>

\* Line 32: shapes = pd.read_csv('shapes.txt'); no usecols, so a table that
\* lacks a column is read as it is.
LoadShapes ==
    /\ pc = "load_shapes"
    /\ IF shapes_txt.status /= "missing"
       THEN /\ shapes' = shapes_txt.rows
            /\ pc' = "load_routes"
            /\ UNCHANGED <<files, outfile, routes, trips, routes_trips_shapes,
                           route_queue, routeLocals, route_shape_list>>
       ELSE Raise

\* Line 34: routes = pd.read_csv('routes.txt', usecols=[...])
LoadRoutes ==
    /\ pc = "load_routes"
    /\ IF routes_txt.status = "ok"
       THEN /\ routes' = routes_txt.rows
            /\ pc' = "load_trips"
            /\ UNCHANGED <<files, outfile, shapes, trips, routes_trips_shapes,
                           route_queue, routeLocals, route_shape_list>>
       ELSE Raise

\* Line 36: trips = pd.read_csv('trips.txt', usecols=['route_id','shape_id'])
LoadTrips ==
    /\ pc = "load_trips"
    /\ IF trips_txt.status = "ok"
       THEN /\ trips' = trips_txt.rows
            /\ pc' = "join"
            /\ UNCHANGED <<files, outfile, shapes, routes, routes_trips_shapes,
                           route_queue, routeLocals, route_shape_list>>
       ELSE Raise

\* Lines 40-58: drop duplicate trips, join the three tables, drop duplicate
\* rows, start with an empty list and the route ids of the joined table.
Join ==
    /\ pc = "join"
    /\ trips' = DropDuplicates(trips)
    /\ routes_trips_shapes' = JoinTables(routes, trips, shapes)
    /\ route_queue' = RouteIds(routes_trips_shapes')
    /\ route_shape_list' = <<>>
    /\ pc' = "route"
    /\ UNCHANGED <<files, outfile, shapes, routes, routeLocals>>

\* Lines 58-68: take the next route, its set of shapes, and any one of them
\* as the longest so far (set.pop on an empty set raises, and so does
\* shapes[...]['shape_pt_sequence'] when shapes.txt has no such column).
RouteStart ==
    /\ pc = "route"
    /\ route_queue /= <<>>
    /\ LET r   == Head(route_queue)
           ids == ShapeIdsOf(routes_trips_shapes, r)
       IN  IF ids = {} \/ shapes_txt.status = "nocolumn"
           THEN Raise
           ELSE /\ route_id' = r
                /\ shape_ids' = ids
                /\ \E first \in ids :
                    /\ longest' = first
                    /\ longest_pt_num' = PtCount(shapes, first)
                /\ todo' = ids
                /\ multiline' = <<>>
                /\ area' = {}
                /\ merged' = <<>>
                /\ pc' = "select"
                /\ UNCHANGED <<files, outfile, frames, routes_trips_shapes,
                               route_queue, route_shape_list>>

\* Lines 70-78: one pass of the loop that looks for the longest shape; a set
\* is gone through in no order the script controls.
SelectStep ==
    /\ pc = "select"
    /\ \E shape_id \in todo :
        /\ todo' = todo \ {shape_id}
        /\ IF Longer(PtCount(shapes, shape_id), longest_pt_num)
           THEN /\ longest' = shape_id
                /\ longest_pt_num' = PtCount(shapes, shape_id)
           ELSE UNCHANGED <<longest, longest_pt_num>>
    /\ UNCHANGED <<files, outfile, frames, routes_trips_shapes, route_queue,
                   route_id, shape_ids, multiline, area, merged,
                   route_shape_list, pc>>

\* Lines 82-92: the longest shape as a line, the area around it, and the
\* set of the other shapes, which is the set shape_ids itself.
BuildLongest ==
    /\ pc = "select"
    /\ todo = {}
    /\ IF LineStringRaises(shapes, longest)
       THEN Raise
       ELSE /\ multiline' = <<Coords(shapes, longest)>>
            /\ area' = InitialArea(multiline')
            /\ shape_ids' = ShorterShapeIds(shape_ids, longest)
            /\ todo' = shape_ids'
            /\ merged' = <<>>
            /\ pc' = "merge"
            /\ UNCHANGED <<files, outfile, frames, routes_trips_shapes,
                           route_queue, route_id, longest, longest_pt_num,
                           route_shape_list>>

\* Lines 95-107: one pass of the loop over the shorter shapes.
MergeStep ==
    /\ pc = "merge"
    /\ \E shape_id \in todo :
        IF LineStringRaises(shapes, shape_id)
        THEN Raise
        ELSE LET res == MergeResult(multiline, area, Coords(shapes, shape_id))
             IN  /\ multiline' = res.multiline
                 /\ area' = res.area
                 /\ todo' = todo \ {shape_id}
                 /\ merged' = Append(merged, shape_id)
                 /\ UNCHANGED <<files, outfile, frames, routes_trips_shapes,
                                route_queue, route_id, shape_ids, longest,
                                longest_pt_num, route_shape_list, pc>>

\* The feature is written to the file as soon as it is built.
FinishRouteWriting ==
    /\ pc = "merge"
    /\ todo = {}
    /\ route_shape_list' = Append(route_shape_list, Feature(multiline, route_id))
    /\ route_queue' = Tail(route_queue)
    /\ outfile' = [exists |-> TRUE, features |-> route_shape_list']
    /\ pc' = "route"
    /\ UNCHANGED <<files, frames, routes_trips_shapes, routeLocals>>

\* Lines 110-115: simplify what was built and add it to the list as the
\* feature of this route.
FinishRoute ==
    /\ pc = "merge"
    /\ todo = {}
    /\ route_shape_list' = Append(route_shape_list, Feature(multiline, route_id))
    /\ route_queue' = Tail(route_queue)
    /\ pc' = "route"
    /\ UNCHANGED <<files, outfile, frames, routes_trips_shapes, routeLocals>>

\* Lines 120-121: after the last route, write the feature collection.
WriteOutput ==
    /\ pc = "route"
    /\ route_queue = <<>>
    /\ outfile' = [exists |-> TRUE, features |-> route_shape_list]
    /\ pc' = "done"
    /\ UNCHANGED <<files, frames, routes_trips_shapes, route_queue,
                   routeLocals, route_shape_list>>

Next ==
    \/ LoadShapes
    \/ LoadRoutes
    \/ LoadTrips
    \/ Join
    \/ RouteStart
    \/ SelectStep
    \/ BuildLongest
    \/ MergeStep
    \/ FinishRoute
    \/ WriteOutput

Spec == Init /\ [][Next]_vars

(* --------------------- what the claims speak about --------------------- *)

\* The shape ids the joined table gives the route being processed.
RouteShapes == ShapeIdsOf(routes_trips_shapes, route_id)

\* The line of shape id as the script builds it.
Line(id) == Coords(shapes, id)

\* The selection loop of the current route has run to its end.
Selected == (pc = "select" /\ todo = {}) \/ pc = "merge"

\* The merge loop of the current route has run to its end.
MergeDone == pc = "merge" /\ todo = {}

\* What has been built of the current route, as a set of points.
Built == MultiPointSet(multiline)

\* A sequence without one of its entries.
Without(seq, k) == SubSeq(seq, 1, k - 1) \o SubSeq(seq, k + 1, Len(seq))

\* Every order in which a set of shape ids can be gone through.
Orders(S) ==
    {f \in [1 .. Cardinality(S) -> S] :
        \A i, j \in 1 .. Cardinality(S) : f[i] = f[j] => i = j}

RECURSIVE Replay(_, _, _)
\* Lines 95-107 run over the shapes of order, from multiline ml and area ar.
Replay(ml, ar, order) ==
    IF order = <<>> THEN [multiline |-> ml, area |-> ar]
    ELSE LET res == MergeResult(ml, ar, Line(Head(order)))
         IN  Replay(res.multiline, res.area, Tail(order))

\* The merge loop run over order, from the longest shape of the route.
ReplayFromLongest(order) ==
    Replay(<<Line(longest)>>, InitialArea(<<Line(longest)>>), order)

\* The points of shape id in the order of their sequence numbers.
BySequence(id) ==
    LET rows == ShapeRows(shapes, id)
    IN  [k \in DOMAIN rows |->
            (CHOOSE r \in Range(rows) :
                Cardinality({q \in Range(rows) : q.seq < r.seq}) = k - 1).pt]

\* A simple open curve on the axis: it never turns back.
Simple(line) ==
    \/ \A i \in 1 .. Len(line) - 1 : line[i] < line[i + 1]
    \/ \A i \in 1 .. Len(line) - 1 : line[i] > line[i + 1]

\* No point of one line lies within the buffer distance of the other.
Separated(l1, l2) ==
    \A a \in PointSet(l1), b \in PointSet(l2) : Abs(a - b) > BufferRadius

\* The route ids that routes.txt lists, that a trip names, with a shape
\* that has rows in shapes.txt.
JoinedRoutes ==
    {r \in Range(routes_txt.rows) :
        \E t \in Range(trips_txt.rows) :
            /\ t.route_id = r
            /\ \E row \in Range(shapes_txt.rows) : row.shape_id = t.shape_id}

FilesOk ==
    shapes_txt.status = "ok" /\ routes_txt.status = "ok" /\ trips_txt.status = "ok"

\* All three files could be read as tables.
FilesRead ==
    /\ shapes_txt.status /= "missing"
    /\ routes_txt.status = "ok"
    /\ trips_txt.status = "ok"

(* ------------------------------- claims -------------------------------- *)

\* C1: when the selection loop of a route has ended, in whatever order it
\* went through the set, the shape it names longest is one of the route's
\* shapes and no shape of the route has more points.
C1_SelectorPicksLongest ==
    pc \in {"select", "merge"} =>
        LET ids == RouteShapes
            n   == Len(Line(longest))
        IN  /\ longest \in ids
            /\ Selected => \A s \in ids : n >= Len(Line(s))

\* C1 witness: a route of three shapes, two of them tied for the most points.
C1_Witness ==
    /\ pc = "merge"
    /\ Cardinality(RouteShapes) = 3
    /\ \E s, t \in RouteShapes :
        /\ s /= longest
        /\ Len(Line(s)) = Len(Line(longest))
        /\ Len(Line(t)) < Len(Line(longest))

\* C2: the line built for the longest shape lists the shape's points in
\* ascending order of their sequence numbers, whatever the order of rows.
C2_PointsInSequenceOrder ==
    pc = "merge" => multiline[1] = BySequence(longest)

\* C3: a shape that lay within the area when the merge loop took it has
\* left geometry and area as they would be had the loop never taken it.
C3_ContainedShapeChangesNothing ==
    pc = "merge" =>
        \A k \in DOMAIN merged :
            Within(Line(merged[k]), ReplayFromLongest(SubSeq(merged, 1, k - 1)).area)
                => <<multiline, area>> =
                       LET without == ReplayFromLongest(Without(merged, k))
                       IN  <<without.multiline, without.area>>

\* C3 witness: the loop has ended; it took a shape that lay within the area
\* after a shape that added a part.
C3_Witness ==
    /\ MergeDone
    /\ Len(merged) = 2
    /\ Len(multiline) > 1
    /\ ~Within(Line(merged[1]), InitialArea(<<Line(longest)>>))
    /\ Within(Line(merged[2]), area)
    /\ ~Within(Line(merged[2]), InitialArea(<<Line(longest)>>))

\* C4: for a route of one shape the merge loop has nothing to take, what is
\* built is that shape, and the route's feature is that shape simplified,
\* in one part.
C4_SingleShapeRoute ==
    /\ (pc = "merge" /\ Cardinality(RouteShapes) = 1) =>
        /\ todo = {}
        /\ merged = <<>>
        /\ multiline = <<Line(longest)>>
    /\ \A i \in DOMAIN route_shape_list :
        LET ids == ShapeIdsOf(routes_trips_shapes, route_shape_list[i].route_id)
        IN  Cardinality(ids) = 1 =>
                \A s \in ids :
                    route_shape_list[i].geometry = <<SimplifyLine(Line(s))>>

\* C4 witness: the feature of a route of one shape of three points.
C4_Witness ==
    \E i \in DOMAIN route_shape_list :
        LET ids == ShapeIdsOf(routes_trips_shapes, route_shape_list[i].route_id)
        IN  /\ Cardinality(ids) = 1
            /\ \A s \in ids : Len(Line(s)) = 3
            /\ Len(route_shape_list[i].geometry) = 1
            /\ Len(route_shape_list[i].geometry[1]) = 2

\* C5: the feature of a route of two simple shapes that are further apart
\* than the buffer distance has two parts, the two shapes simplified.
C5_TwoSeparatedShapes ==
    \A i \in DOMAIN route_shape_list :
        LET ids == ShapeIdsOf(routes_trips_shapes, route_shape_list[i].route_id)
            geo == route_shape_list[i].geometry
        IN  \A s, t \in ids :
                (/\ ids = {s, t}
                 /\ s /= t
                 /\ Simple(Line(s))
                 /\ Simple(Line(t))
                 /\ Separated(Line(s), Line(t)))
                    => /\ Len(geo) = 2
                       /\ {geo[1], geo[2]} = {SimplifyLine(Line(s)), SimplifyLine(Line(t))}

\* C5 witness: such a feature, its parts those of two different shapes.
C5_Witness ==
    \E i \in DOMAIN route_shape_list :
        LET ids == ShapeIdsOf(routes_trips_shapes, route_shape_list[i].route_id)
            geo == route_shape_list[i].geometry
        IN  \E s, t \in ids :
                /\ ids = {s, t}
                /\ s /= t
                /\ Simple(Line(s))
                /\ Simple(Line(t))
                /\ Separated(Line(s), Line(t))
                /\ Len(Line(s)) = 3
                /\ Len(geo) = 2
                /\ geo[1] /= geo[2]

C8_BuiltCoversRoute ==
    pc = "merge" =>
        /\ PointSet(Line(longest)) \subseteq Built
        /\ Built \subseteq UNION {PointSet(Line(s)) : s \in RouteShapes}
        /\ \A s \in RouteShapes \ todo :
            PointSet(Line(s)) \subseteq Buffer(Built, BufferRadius)

\* C8 witness: the loop has ended, a shape added two parts, and a point of
\* it was left out.
C8_Witness ==
    /\ MergeDone
    /\ Len(multiline) >= 3
    /\ \E s \in RouteShapes :
        /\ ~(PointSet(Line(s)) \subseteq Built)
        /\ Cardinality(PointSet(Line(s)) \ PointSet(Line(longest))) >= 3

\* C9: whenever the merge loop is about to take a shape or has taken one,
\* the area is the buffer of what is built; neither shrinks in the loop.
C9_AreaIsBufferOfBuilt ==
    [][/\ pc' = "merge" => area' = Buffer(MultiPointSet(multiline'), BufferRadius)
       /\ (pc = "merge" /\ pc' = "merge") =>
            /\ Built \subseteq MultiPointSet(multiline')
            /\ area \subseteq area']_vars

\* C9 witness: a shape was taken that lies within the area now but did not
\* lie within the area around the longest shape alone.
C9_Witness ==
    /\ MergeDone
    /\ Len(merged) = 2
    /\ Within(Line(merged[2]), area)
    /\ ~Within(Line(merged[2]), InitialArea(<<Line(longest)>>))
    /\ Len(multiline) = 2

\* C10: whatever order the merge loop took, every point of what it built
\* lies within the buffer distance of what any other order builds from the
\* same longest shape, and the other way round.
C10_OrdersWithinTolerance ==
    MergeDone =>
        \A order \in Orders(RouteShapes \ {longest}) :
            LET other == MultiPointSet(ReplayFromLongest(order).multiline)
            IN  /\ Built \subseteq Buffer(other, BufferRadius)
                /\ other \subseteq Buffer(Built, BufferRadius)

\* C10 witness: the loop has ended and another order builds something else.
C10_Witness ==
    /\ MergeDone
    /\ \E order \in Orders(RouteShapes \ {longest}) :
        MultiPointSet(ReplayFromLongest(order).multiline) /= Built

=============================================================================
